---- MODULE Spec2Model ----
(***************************************************************************)
(* A model of DOI_Zotero.py: the per-PDF matching loop of main() together  *)
(* with the pure helpers it calls (DOI candidate extraction, title         *)
(* candidate extraction, title similarity, thesis detection and the entry  *)
(* constructors).  Texts, titles, filenames and DOIs are Python strings and *)
(* are modelled as TLA+ strings, examined character by character.          *)
(***************************************************************************)
EXTENDS Integers, Sequences, FiniteSets, TLC

(***************************************************************************)
(* Bounds of the model.                                                    *)
(***************************************************************************)
\* number of PDF files found in the folder (len(pdf_files))
MaxPdfs == 2
\* number of DOI-bearing fragments a text is assembled from
MaxFragments == 2
\* number of tokens of a text handed to the candidate extractor on its own
MaxTokens == 3
\* number of lines of a text handed to the title extractor on its own
MaxLines == 3

(***************************************************************************)
(* Python str primitives.                                                  *)
(***************************************************************************)
Max(S) == CHOOSE m \in S : \A n \in S : n <= m
Min(S) == CHOOSE m \in S : \A n \in S : m <= n

\* s[i..j] (1-based, inclusive), cut to the string as a Python slice is
Slice(s, i, j) ==
    LET lo == IF i < 1 THEN 1 ELSE i
        hi == IF j > Len(s) THEN Len(s) ELSE j
    IN IF lo > hi THEN "" ELSE SubSeq(s, lo, hi)

\* s[i] (1-based); "" outside the string
At(s, i) == Slice(s, i, i)

UpperChars == "ABCDEFGHIJKLMNOPQRSTUVWXYZ"
LowerChars == "abcdefghijklmnopqrstuvwxyz"
DigitChars == {"0", "1", "2", "3", "4", "5", "6", "7", "8", "9"}
\* \s of the re module, restricted to the characters the texts use
SpaceChars == {" ", "\n", "\t"}
LetterChars == {SubSeq(UpperChars, i, i) : i \in 1..26} \cup {SubSeq(LowerChars, i, i) : i \in 1..26}
\* \w of the re module
WordChars == LetterChars \cup DigitChars \cup {"_"}

LowerChar(c) ==
    IF \E i \in 1..26 : SubSeq(UpperChars, i, i) = c
    THEN LET i == CHOOSE k \in 1..26 : SubSeq(UpperChars, k, k) = c IN SubSeq(LowerChars, i, i)
    ELSE c

\* str.lower(), by halves
RECURSIVE lower(_)
lower(s) ==
    IF Len(s) = 0 THEN ""
    ELSE IF Len(s) = 1 THEN LowerChar(s)
    ELSE LET h == Len(s) \div 2 IN lower(SubSeq(s, 1, h)) \o lower(SubSeq(s, h + 1, Len(s)))

\* s.startswith(p)
startswith(s, p) == Slice(s, 1, Len(p)) = p

\* sub in s
Contains(s, sub) == \E i \in 1..(Len(s) - Len(sub) + 1) : Slice(s, i, i + Len(sub) - 1) = sub

\* str.strip(): drop leading and trailing whitespace
lstrip(s) ==
    LET keep == {i \in 1..Len(s) : At(s, i) \notin SpaceChars}
    IN IF keep = {} THEN "" ELSE Slice(s, Min(keep), Len(s))
\* s.rstrip(chars)
rstripChars(s, chars) ==
    LET keep == {i \in 1..Len(s) : At(s, i) \notin chars}
    IN IF keep = {} THEN "" ELSE Slice(s, 1, Max(keep))
strip(s) == rstripChars(lstrip(s), SpaceChars)

\* str.splitlines(), for texts whose only line break is "\n"
RECURSIVE splitFrom(_, _)
splitFrom(s, start) ==
    IF start > Len(s) THEN <<>>
    ELSE LET nl == {i \in start..Len(s) : At(s, i) = "\n"}
         IN IF nl = {} THEN <<Slice(s, start, Len(s))>>
            ELSE <<Slice(s, start, Min(nl) - 1)>> \o splitFrom(s, Min(nl) + 1)
splitlines(s) == splitFrom(s, 1)

\* \b between s[i] and s[i+1]
Boundary(s, i) == (At(s, i) \in WordChars) # (At(s, i + 1) \in WordChars)

\* length of the run of characters of class cls starting at s[i]
RunIn(s, i, cls) == Min({k \in i..(Len(s) + 1) : At(s, k) \notin cls} \cup {Len(s) + 1}) - i
\* length of the run of characters outside class cls starting at s[i]
RunNotIn(s, i, cls) == Min({k \in i..(Len(s) + 1) : At(s, k) \in cls} \cup {Len(s) + 1}) - i

(***************************************************************************)
(* DOI candidate extraction.                                               *)
(***************************************************************************)
\* the characters [^\s"'<>] excludes
DoiStopChars == SpaceChars \cup {"\"", "'", "<", ">"}

\* 10\.\d{4,9}/[^\s"'<>]+ matched at s[p]: the index of the last character of
\* the greedy match, 0 when there is none
DoiCoreEnd(s, p) ==
    LET d == RunIn(s, p + 3, DigitChars)
        q == p + 3 + d + 1
        r == RunNotIn(s, q, DoiStopChars)
    IN IF Slice(s, p, p + 2) = "10." /\ d >= 4 /\ d <= 9
          /\ At(s, p + 3 + d) = "/" /\ r >= 1
       THEN q + r - 1 ELSE 0

\* (?:doi[:\s]|DOI[:\s]|https?://doi\.org/)\s* matched at s[i], ignoring case:
\* the index just after the marker and the whitespace, 0 when there is none
LabelPrefixEnd(s, i) ==
    LET low3 == lower(Slice(s, i, i + 2))
        after ==
            IF low3 = "doi" /\ At(s, i + 3) \in (SpaceChars \cup {":"}) THEN i + 4
            ELSE IF lower(Slice(s, i, i + 14)) = "http://doi.org/" THEN i + 15
            ELSE IF lower(Slice(s, i, i + 15)) = "https://doi.org/" THEN i + 16
            ELSE 0
    IN IF after = 0 THEN 0 ELSE after + RunIn(s, after, SpaceChars)

\* re.findall of the label pattern: the captured groups of the successive
\* non-overlapping matches, left to right
LabelMatchEnd(s, i) == LET p == LabelPrefixEnd(s, i) IN IF p = 0 THEN 0 ELSE DoiCoreEnd(s, p)
RECURSIVE label_findall(_, _)
label_findall(s, from) ==
    LET starts == {i \in from..Len(s) : LabelMatchEnd(s, i) # 0}
    IN IF starts = {} THEN <<>>
       ELSE LET i == Min(starts)
            IN <<Slice(s, LabelPrefixEnd(s, i), LabelMatchEnd(s, i))>> \o label_findall(s, LabelMatchEnd(s, i) + 1)

\* \b(10\.\d{4,9}/[^\s"'<>]+)\b matched at s[p]: the last index of the match
\* (the greedy suffix backtracks to the last word boundary), 0 when none
DoiRegexEnd(s, p) ==
    LET e == DoiCoreEnd(s, p)
        d == RunIn(s, p + 3, DigitChars)
        q == p + 3 + d + 1
        ends == {k \in q..e : Boundary(s, k)}
    IN IF e = 0 \/ ~Boundary(s, p - 1) \/ ends = {} THEN 0 ELSE Max(ends)

\* DOI_REGEX.findall(txt)
RECURSIVE DOI_REGEX_findall(_, _)
DOI_REGEX_findall(s, from) ==
    LET starts == {i \in from..Len(s) : DoiRegexEnd(s, i) # 0}
    IN IF starts = {} THEN <<>>
       ELSE LET i == Min(starts)
            IN <<Slice(s, i, DoiRegexEnd(s, i))>> \o DOI_REGEX_findall(s, DoiRegexEnd(s, i) + 1)

\* m.strip().rstrip('.,;')
clean_match(m) == rstripChars(strip(m), {".", ",", ";"})

TagAll(matches, tag) == [k \in 1..Len(matches) |-> <<clean_match(matches[k]), tag>>]

\* extract_from_text(txt, tag): the (doi, tag) pairs it appends
extract_from_text(txt, tag) ==
    IF txt = "" THEN <<>>
    ELSE TagAll(label_findall(txt, 1), tag \o "_label") \o TagAll(DOI_REGEX_findall(txt, 1), tag \o "_any")

\* order-preserving, case-insensitive de-duplication
RECURSIVE dedup(_, _)
dedup(cands, seen) ==
    IF cands = <<>> THEN <<>>
    ELSE LET c == Head(cands)
         IN IF lower(c[1]) \in seen THEN dedup(Tail(cands), seen)
            ELSE <<c>> \o dedup(Tail(cands), seen \cup {lower(c[1])})

find_doi_candidates_in_pdf_text(full_text, first_pages_text) ==
    dedup((IF first_pages_text # "" THEN extract_from_text(first_pages_text, "firstpages") ELSE <<>>)
          \o extract_from_text(full_text, "anywhere"), {})

(***************************************************************************)
(* Title candidate extraction.                                             *)
(***************************************************************************)
skip_words == {"abstract", "keywords", "introduction", "acknowledg", "copyright", "Theses", "Dissertations"}
skip_institution_terms == {"university", "college", "department", "institute", "school", "brigham", "brigham young", "byu"}

\* [ln.strip() for ln in full_text.splitlines() if ln.strip()]
RECURSIVE stripped_lines(_)
stripped_lines(raw) ==
    IF raw = <<>> THEN <<>>
    ELSE (IF strip(Head(raw)) # "" THEN <<strip(Head(raw))>> ELSE <<>>) \o stripped_lines(Tail(raw))

TitleScanLimit == 30
TitleMinLen == 20

RECURSIVE first_title_line(_, _)
first_title_line(lines, k) ==
    IF k > Len(lines) \/ k > TitleScanLimit THEN ""
    ELSE LET ln == lines[k]
             low == lower(ln)
         IN IF \E s \in skip_words : startswith(low, s) THEN first_title_line(lines, k + 1)
            ELSE IF \E term \in skip_institution_terms : Contains(low, term) THEN first_title_line(lines, k + 1)
            ELSE IF Len(ln) > TitleMinLen THEN ln
            ELSE first_title_line(lines, k + 1)

extract_title_candidate_from_text(full_text) ==
    IF full_text = "" THEN ""
    ELSE LET lines == stripped_lines(splitlines(full_text))
             hit == first_title_line(lines, 1)
         IN IF hit # "" THEN hit
            ELSE IF lines # <<>> THEN lines[1] ELSE ""

(***************************************************************************)
(* Title similarity: difflib.SequenceMatcher(None, a, b).ratio(), which is *)
(* 2*M/T with M the characters in the matching blocks and T the total      *)
(* length.  A ratio is kept exact, as the pair <<2*M, T>>.                 *)
(***************************************************************************)
\* the absent value None, for variables that hold a str or None
None == "None"
\* Python truthiness of a str-or-None value
Truthy(x) == x # None /\ x # ""

\* length of the common run of a[i..ahi] and b[j..bhi]
MatchLen(a, b, i, j, ahi, bhi) ==
    LET n == IF ahi - i < bhi - j THEN ahi - i + 1 ELSE bhi - j + 1
    IN Max({k \in 0..n : Slice(a, i, i + k - 1) = Slice(b, j, j + k - 1)})

\* SequenceMatcher.find_longest_match without junk: the longest block, the
\* one starting earliest in a, then earliest in b
find_longest_match(a, b, alo, ahi, blo, bhi) ==
    LET runs == [p \in (alo..ahi) \X (blo..bhi) |-> MatchLen(a, b, p[1], p[2], ahi, bhi)]
        k == IF DOMAIN runs = {} THEN 0 ELSE Max({runs[p] : p \in DOMAIN runs})
    IN IF k = 0 THEN <<alo, blo, 0>>
       ELSE LET i == Min({p[1] : p \in {q \in DOMAIN runs : runs[q] = k}})
                j == Min({p[2] : p \in {q \in DOMAIN runs : runs[q] = k /\ q[1] = i}})
            IN <<i, j, k>>

\* the characters in SequenceMatcher.get_matching_blocks()
RECURSIVE matching_size(_, _, _, _, _, _)
matching_size(a, b, alo, ahi, blo, bhi) ==
    IF alo > ahi \/ blo > bhi THEN 0
    ELSE LET m == find_longest_match(a, b, alo, ahi, blo, bhi)
         IN IF m[3] = 0 THEN 0
            ELSE m[3] + matching_size(a, b, alo, m[1] - 1, blo, m[2] - 1)
                      + matching_size(a, b, m[1] + m[3], ahi, m[2] + m[3], bhi)

ratio(a, b) == <<2 * matching_size(a, b, 1, Len(a), 1, Len(b)), Len(a) + Len(b)>>

\* the float 0.0
Zero == <<0, 1>>

title_similarity(a, b) ==
    IF ~Truthy(a) \/ ~Truthy(b) THEN Zero ELSE ratio(lower(a), lower(b))

\* TITLE_SIM_THRESHOLD = 0.55, in hundredths
TITLE_SIM_THRESHOLD == 55
\* the comparison turned round: sim <= TITLE_SIM_THRESHOLD
AtMostThreshold(score) == score[1] * 100 <= TITLE_SIM_THRESHOLD * score[2]

\* sim >= TITLE_SIM_THRESHOLD
AtLeastThreshold(score) == score[1] * 100 >= TITLE_SIM_THRESHOLD * score[2]

\* f"{sim:.3f}", as a number of thousandths (ties go to the even digit, which
\* is what the float formatting does for the exactly representable ratios)
format3f(score) ==
    LET q == (score[1] * 1000) \div score[2]
        r == (score[1] * 1000) % score[2]
    IN IF 2 * r > score[2] \/ (2 * r = score[2] /\ q % 2 = 1) THEN q + 1 ELSE q

\* a high-trust set that leaves out the unlabelled first-pages tag
labelled_tag_only == {"firstpages_label"}

\* HIGH_CONFIDENCE_TAGS (line 24)
HIGH_CONFIDENCE_TAGS == {"firstpages_label", "firstpages_any"}

(***************************************************************************)
(* Crossref messages.  A message is None or a dict; of a dict the model    *)
(* keeps the keys DOI, title and type.  A value is absent (no such key),   *)
(* None, a str or a list.                                                  *)
(***************************************************************************)
Absent == [k |-> "absent"]
PyNone == [k |-> "None"]
PyStr(s) == [k |-> "str", s |-> s]
PyList(v) == [k |-> "list", v |-> v]

NoMsg == [kind |-> "None"]
Message(doi_value, title, type) == [kind |-> "dict", DOI |-> doi_value, title |-> title, type |-> type]

\* isinstance(msg.get('title'), list) and msg.get('title')
HasTitleList(message) == message.title.k = "list" /\ message.title.v # <<>>

\* msg['title'][0] when HasTitleList(msg): a str, or None
FirstTitle(message) == IF message.title.v[1].k = "str" THEN message.title.v[1].s ELSE None

\* cr_title as main computes it from a message (lines 301-303, 333-335)
cr_title_of(message) == IF HasTitleList(message) THEN FirstTitle(message) ELSE ""

\* (msg.get('title') or [''])[0]
title_or_blank(message) == IF HasTitleList(message) THEN FirstTitle(message) ELSE ""

(***************************************************************************)
(* Thesis detection.  A call returns [exc, val]: exc when it raises.       *)
(***************************************************************************)
Returns(v) == [exc |-> FALSE, val |-> v]
Raises == [exc |-> TRUE, val |-> FALSE]

\* re.search(r'\b(thesis|dissertation|ph\.?d|master\'s)\b', text, re.IGNORECASE)
thesis_words == {"thesis", "dissertation", "phd", "ph.d", "master's"}
thesis_regex_search(text) ==
    \E w \in thesis_words : \E i \in 1..Len(text) :
        /\ lower(Slice(text, i, i + Len(w) - 1)) = w
        /\ Boundary(text, i - 1)
        /\ Boundary(text, i + Len(w) - 1)

is_thesis(crossref_msg, pdf_title, first_pages_text, file_name) ==
    LET isMsg == crossref_msg.kind = "dict"
        typVal == crossref_msg.type
        \* (crossref_msg.get('type') or '').lower()
        typRaises == isMsg /\ typVal.k = "list" /\ typVal.v # <<>>
        typ == IF isMsg /\ typVal.k = "str" THEN lower(typVal.s) ELSE ""
        byType == isMsg /\ (Contains(typ, "dissertation") \/ Contains(typ, "thesis"))
        \* crossref_msg['title'][0].lower()
        titleRaises == isMsg /\ HasTitleList(crossref_msg) /\ FirstTitle(crossref_msg) = None
        crt == IF isMsg /\ HasTitleList(crossref_msg) THEN lower(FirstTitle(crossref_msg)) ELSE ""
        byCrTitle == isMsg /\ (Contains(crt, "thesis") \/ Contains(crt, "dissertation"))
        byPdfTitle == Truthy(pdf_title)
                      /\ \E w \in {"thesis", "dissertation", "phd", "ph.d"} : Contains(lower(pdf_title), w)
        byText == Truthy(first_pages_text) /\ thesis_regex_search(first_pages_text)
        byName == Truthy(file_name)
                  /\ \E w \in {"thesis", "dissert", "phd", "dissertation"} : Contains(lower(file_name), w)
    IN IF typRaises THEN Raises
       ELSE IF byType THEN Returns(TRUE)
       ELSE IF titleRaises THEN Raises
       ELSE Returns(byCrTitle \/ byPdfTitle \/ byText \/ byName)

(***************************************************************************)
(* Entry constructors.  Of an entry the model keeps the type, the title,   *)
(* the DOI and the note naming the PDF; "" is a field left out.            *)
(***************************************************************************)
EntryResult(e) == [exc |-> FALSE, val |-> e]
EntryRaises == [exc |-> TRUE, val |-> [type |-> "", title |-> "", doi |-> "", note |-> ""]]

to_bibtex_entry(crossref_msg, pdf_filename, is_thesis_flag) ==
    LET typVal == crossref_msg.type
        \* kind = crossref_msg.get('type', 'article-journal'); 'journal' in kind
        kindRaises == typVal.k = "None"
        isJournal == typVal.k = "absent" \/ (typVal.k = "str" /\ Contains(typVal.s, "journal"))
        bibtype == IF is_thesis_flag THEN "phdthesis" ELSE IF isJournal THEN "article" ELSE "misc"
        \* title = crossref_msg.get('title', [''])[0]; title[:30]
        t == crossref_msg.title
        titleRaises == t.k = "None" \/ (t.k = "list" /\ (t.v = <<>> \/ t.v[1].k # "str"))
        title == IF t.k = "list" THEN t.v[1].s ELSE ""
    IN IF kindRaises \/ titleRaises THEN EntryRaises
       ELSE EntryResult([type |-> bibtype, title |-> title, doi |-> crossref_msg.DOI,
                         note |-> "PDF file: " \o pdf_filename])

to_ris_entry(crossref_msg, pdf_filename, is_thesis_flag) ==
    LET typVal == crossref_msg.type
        \* type_map.get(typ, 'GEN') hashes typ
        typRaises == typVal.k = "list"
        mapped == IF typVal.k = "absent" THEN "JOUR"
                  ELSE IF typVal.k = "str" /\ typVal.s = "article-journal" THEN "JOUR"
                  ELSE IF typVal.k = "str" /\ typVal.s = "book" THEN "BOOK"
                  ELSE IF typVal.k = "str" /\ typVal.s = "report" THEN "RPRT"
                  ELSE IF typVal.k = "str" /\ typVal.s = "proceedings-article" THEN "CPAPER"
                  ELSE "GEN"
        ris_type == IF is_thesis_flag THEN "THES" ELSE mapped
        t == crossref_msg.title
        titleRaises == t.k = "None" \/ (t.k = "list" /\ t.v = <<>>)
        title == IF t.k = "list" /\ t.v[1].k = "str" THEN t.v[1].s ELSE ""
    IN IF typRaises \/ titleRaises THEN EntryRaises
       ELSE EntryResult([type |-> ris_type, title |-> title, doi |-> crossref_msg.DOI,
                         note |-> "PDF file: " \o pdf_filename])

(***************************************************************************)
(* The inputs of a run: the PDFs of the folder (a file name, the text of   *)
(* the first pages, the full text) and the answers of Crossref.            *)
(***************************************************************************)
\* the front matter of a PDF: nothing; an institution line and a title; a
\* section header and a short title; a single line naming an institute
HeaderTexts ==
    {"",
     "Brigham Young University\nFlood forecasting with satellite data\n",
     "Abstract\nFlood forecasting with data\n",
     "Flood forecasting with satellite data institute\n"}

\* lines of a PDF that carry DOIs: one labelled, one with two bare DOIs of
\* which the first repeats the labelled one in another case
DoiFragments == {"doi: 10.1000/a\n", "see 10.1000/A and 10.1000/b.\n"}

RECURSIVE Concatenations(_)
Concatenations(n) ==
    IF n = 0 THEN {""}
    ELSE Concatenations(n - 1) \cup {c \o f : c \in Concatenations(n - 1), f \in DoiFragments}

FragmentTexts == Concatenations(MaxFragments)

\* extract_text_first_pages(path, maxpages=3): "" when extraction fails
FirstPagesTexts == {h \o f : h \in HeaderTexts, f \in FragmentTexts}

\* extract_text_full(path): the first pages and what follows, "" on failure
FullTexts(first) == {""} \cup {first \o f : f \in FragmentTexts}

\* pdf.name of the k-th file of folder.glob("*.pdf")
FileNames(k) == {"paper" \o SubSeq("123456789", k, k) \o ".pdf",
                 "Dissertation" \o SubSeq("123456789", k, k) \o ".pdf"}

\* The PDFs a folder is drawn from.  A folder of one PDF is explored over
\* every file name and every text; a folder of several PDFs over three
\* texts (a labelled DOI after a title, a title alone, nothing).
FolderTexts ==
    {"Brigham Young University\nFlood forecasting with satellite data\ndoi: 10.1000/a\n",
     "Brigham Young University\nFlood forecasting with satellite data\n",
     ""}
Pdfs(n, k) ==
    IF n <= 1 THEN {[name |-> nm, first |-> t] : nm \in FileNames(k), t \in FirstPagesTexts}
    ELSE {[name |-> "paper" \o SubSeq("123456789", k, k) \o ".pdf", first |-> t] : t \in FolderTexts}
\* the full text of a PDF of the folder: the PDFs of a folder of several
\* have no more than their first pages
PdfFullTexts(n, first) == IF n <= 1 THEN FullTexts(first) ELSE {first}

\* the dicts Crossref may answer with
Messages ==
    {Message("10.1000/a", PyList(<<PyStr("FLOOD FORECASTING WITH SATELLITE DATA")>>), PyStr("journal-article")),
     Message("10.1000/b", PyList(<<PyStr("Unrelated Paper")>>), PyStr("journal-article")),
     Message("10.1000/a", PyList(<<>>), PyStr("journal-article")),
     Message("10.1000/a", PyList(<<PyNone>>), PyStr("journal-article")),
     Message("10.1000/a", PyList(<<PyStr("FLOOD FORECASTING WITH SATELLITE DATA")>>), PyList(<<>>)),
     Message("10.1000/a", PyList(<<PyStr("FLOOD FORECASTING WITH SATELLITE DATA")>>), PyNone),
     Message("10.1000/b", PyList(<<PyStr("ZZZ")>>), PyStr("book")),
     Message("", PyList(<<PyStr("FLOOD FORECASTING WITH SATELLITE DATA")>>), PyStr("journal-article"))}

\* the dicts Crossref answers with while a folder of several PDFs is
\* processed: a sound one, one whose title list holds None, one whose type
\* is a list
FolderMessages ==
    {Message("10.1000/a", PyList(<<PyStr("FLOOD FORECASTING WITH SATELLITE DATA")>>), PyStr("journal-article")),
     Message("10.1000/a", PyList(<<PyNone>>), PyStr("journal-article")),
     Message("10.1000/a", PyList(<<PyStr("FLOOD FORECASTING WITH SATELLITE DATA")>>), PyList(<<>>))}
Catalog(n) == IF n <= 1 THEN Messages ELSE FolderMessages

\* query_crossref_by_doi(doi): the message, or None (not found, a status
\* other than 200, a timeout or any other exception)
query_crossref_by_doi(doi_cand, catalog) == catalog \cup {NoMsg}

\* query_crossref_by_title(title): items[0], or None
query_crossref_by_title(title, catalog) == IF title = "" THEN {NoMsg} ELSE catalog \cup {NoMsg}

(***************************************************************************)
(* The values of the pure helpers on the inputs above, computed once.      *)
(***************************************************************************)
TitleCandidateOf == [t \in FirstPagesTexts |-> extract_title_candidate_from_text(t)]
FirstPagesCandidatesOf == [t \in FirstPagesTexts |-> find_doi_candidates_in_pdf_text("", t)]
NoCandidateTexts == {t \in FirstPagesTexts : FirstPagesCandidatesOf[t] = <<>>}
FullCandidatesOf ==
    [p \in {<<full, first>> : full \in UNION {FullTexts(t) : t \in NoCandidateTexts}, first \in NoCandidateTexts}
       |-> find_doi_candidates_in_pdf_text(p[1], p[2])]
CrTitles == {cr_title_of(m) : m \in Messages}
SimilarityOf ==
    [p \in {<<TitleCandidateOf[t], c>> : t \in FirstPagesTexts, c \in CrTitles} |-> title_similarity(p[1], p[2])]
ThesisOf ==
    [p \in {<<m, t, None>> : m \in Messages, t \in FirstPagesTexts}
       |-> is_thesis(p[1], TitleCandidateOf[p[2]], p[2], p[3])]

(***************************************************************************)
(* The state of main().                                                    *)
(***************************************************************************)
VARIABLES
    AUTO_ACCEPT_TITLE_SEARCH,  \* the configuration switch
    n_files,                   \* len(pdf_files)
    pdf_index,                 \* how many of pdf_files the loop has taken
    pc,                        \* where main is
    filename, text_first, text_full, pdf_title_candidate, candidates,
    ci,                        \* position of the candidate loop in candidates
    msg, cr_title, sim,
    chosen, chosen_msg, chosen_confidence, chosen_tag, chosen_sim,
    title_search_attempted, title_search_msg, title_search_sim,
    doi, doi_source, status, thesis_flag, warning,
    bib_entries, ris_entries, report_rows, manual_review_rows,
    files_written,             \* the files main has written
    calls,                     \* history: the resolver calls made so far
    calls_since_sleep,         \* history: resolver calls since the last time.sleep
    extracted_full             \* history: extract_text_full ran for this PDF

cfgVars == <<AUTO_ACCEPT_TITLE_SEARCH, n_files>>
docVars == <<filename, text_first, text_full, pdf_title_candidate, candidates, extracted_full>>
scanVars == <<ci, msg, cr_title, sim>>
choiceVars == <<chosen, chosen_msg, chosen_confidence, chosen_tag, chosen_sim>>
searchVars == <<title_search_attempted, title_search_msg, title_search_sim>>
finalVars == <<doi, doi_source, status, thesis_flag, warning>>
outVars == <<bib_entries, ris_entries, report_rows, manual_review_rows, files_written>>
netVars == <<calls, calls_since_sleep>>
vars == <<cfgVars, pdf_index, pc, docVars, scanVars, choiceVars, searchVars, finalVars, outVars, netVars>>

\* title_search_sim = None
NoSim == <<0, 0>>
\* the empty sim column of a report row
Blank == 0 - 1

Init ==
    /\ AUTO_ACCEPT_TITLE_SEARCH \in BOOLEAN
    /\ n_files \in 0..MaxPdfs
    /\ pdf_index = 0
    /\ pc = "next_pdf"
    /\ filename = "" /\ text_first = "" /\ text_full = "" /\ pdf_title_candidate = ""
    /\ candidates = <<>> /\ extracted_full = FALSE
    /\ ci = 1 /\ msg = NoMsg /\ cr_title = "" /\ sim = Zero
    /\ chosen = None /\ chosen_msg = NoMsg /\ chosen_confidence = "" /\ chosen_tag = None
    /\ chosen_sim = Zero
    /\ title_search_attempted = FALSE /\ title_search_msg = NoMsg /\ title_search_sim = NoSim
    /\ doi = None /\ doi_source = None /\ status = "" /\ thesis_flag = FALSE /\ warning = ""
    /\ bib_entries = <<>> /\ ris_entries = <<>> /\ report_rows = <<>> /\ manual_review_rows = <<>>
    /\ files_written = {}
    /\ calls = <<>> /\ calls_since_sleep = 0

\* a loop that never falls back to the full text
full_text_never_needed(cands) == FALSE

\* line 281: if not candidates
full_text_needed(cands) == cands = <<>>

\* lines 262-292, without the full-text step: the next PDF is taken, its
\* first pages are read and the per-PDF variables are reset
NextPdf ==
    /\ pc = "next_pdf"
    /\ pdf_index < n_files
    /\ \E pdf \in Pdfs(n_files, pdf_index + 1) :
        /\ filename' = pdf.name
        /\ text_first' = pdf.first
        /\ pdf_title_candidate' = TitleCandidateOf[pdf.first]
        /\ candidates' = FirstPagesCandidatesOf[pdf.first]
        /\ pc' = IF full_text_needed(FirstPagesCandidatesOf[pdf.first]) THEN "full_text" ELSE "scan"
    /\ pdf_index' = pdf_index + 1
    /\ text_full' = "" /\ extracted_full' = FALSE
    /\ ci' = 1 /\ cr_title' = ""
    /\ chosen' = None /\ chosen_msg' = NoMsg /\ chosen_confidence' = "" /\ chosen_tag' = None
    /\ chosen_sim' = Zero
    /\ title_search_attempted' = FALSE /\ title_search_msg' = NoMsg /\ title_search_sim' = NoSim
    /\ doi' = None /\ doi_source' = None /\ warning' = ""
    /\ UNCHANGED <<cfgVars, msg, sim, status, thesis_flag, outVars, netVars>>

\* lines 281-283: no candidate in the first pages, the full text is read
ExtractFullText ==
    /\ pc = "full_text"
    /\ \E full \in PdfFullTexts(n_files, text_first) :
        /\ text_full' = full
        /\ candidates' = FullCandidatesOf[<<full, text_first>>]
    /\ extracted_full' = TRUE
    /\ pc' = "scan"
    /\ UNCHANGED <<cfgVars, pdf_index, filename, text_first, pdf_title_candidate, scanVars,
                   choiceVars, searchVars, finalVars, outVars, netVars>>

\* lines 294-296: the loop takes the next candidate and asks Crossref
QueryDoi ==
    /\ pc = "scan"
    /\ ci <= Len(candidates)
    /\ \E m \in query_crossref_by_doi(candidates[ci][1], Catalog(n_files)) :
        /\ msg' = m
        /\ calls' = Append(calls, [pdf |-> pdf_index, kind |-> "doi", index |-> ci, msg |-> m])
    /\ calls_since_sleep' = calls_since_sleep + 1
    /\ pc' = "sleep_doi"
    /\ UNCHANGED <<cfgVars, pdf_index, docVars, ci, cr_title, sim, choiceVars, searchVars,
                   finalVars, outVars>>

\* the candidate loop without its time.sleep
NoSleepAfterDoi ==
    /\ pc = "sleep_doi"
    /\ pc' = "decide"
    /\ UNCHANGED <<cfgVars, pdf_index, docVars, scanVars, choiceVars, searchVars, finalVars,
                   outVars, netVars>>

\* line 297: time.sleep(SLEEP_BETWEEN_REQUESTS)
SleepAfterDoi ==
    /\ pc = "sleep_doi"
    /\ calls_since_sleep' = 0
    /\ pc' = "decide"
    /\ UNCHANGED <<cfgVars, pdf_index, docVars, scanVars, choiceVars, searchVars, finalVars,
                   outVars, calls>>

\* lines 298-324: the acceptance rule for the candidate just resolved
Decide ==
    /\ pc = "decide"
    /\ IF msg = NoMsg
       THEN /\ ci' = ci + 1
            /\ pc' = "scan"
            /\ UNCHANGED <<cr_title, sim, choiceVars>>
       ELSE LET title == cr_title_of(msg)
                score == SimilarityOf[<<pdf_title_candidate, title>>]
                tag == candidates[ci][2]
            IN /\ cr_title' = title
               /\ sim' = score
               /\ IF tag \in HIGH_CONFIDENCE_TAGS
                  THEN /\ chosen' = candidates[ci][1]
                       /\ chosen_msg' = msg
                       /\ chosen_confidence' = "high"
                       /\ chosen_tag' = tag
                       /\ chosen_sim' = score
                       /\ ci' = ci
                       /\ pc' = "fallback"
                  ELSE IF AtLeastThreshold(score)
                  THEN /\ chosen' = candidates[ci][1]
                       /\ chosen_msg' = msg
                       /\ chosen_confidence' = "medium"
                       /\ chosen_tag' = tag
                       /\ chosen_sim' = score
                       /\ ci' = ci
                       /\ pc' = "fallback"
                  ELSE /\ ci' = ci + 1
                       /\ pc' = "scan"
                       /\ UNCHANGED choiceVars
    /\ UNCHANGED <<cfgVars, pdf_index, docVars, msg, searchVars, finalVars, outVars, netVars>>

\* line 294: the candidates are exhausted
ScanExhausted ==
    /\ pc = "scan"
    /\ ci > Len(candidates)
    /\ pc' = "fallback"
    /\ UNCHANGED <<cfgVars, pdf_index, docVars, scanVars, choiceVars, searchVars, finalVars,
                   outVars, netVars>>

\* a title search that runs whenever there is a title candidate
title_search_despite_choice == Truthy(pdf_title_candidate)

\* line 327: not chosen and pdf_title_candidate
title_search_due == ~Truthy(chosen) /\ Truthy(pdf_title_candidate)

\* lines 327-329: nothing chosen and a title candidate: the title search
QueryTitle ==
    /\ pc = "fallback"
    /\ title_search_due
    /\ \E m \in query_crossref_by_title(pdf_title_candidate, Catalog(n_files)) :
        /\ msg' = m
        /\ calls' = Append(calls, [pdf |-> pdf_index, kind |-> "title", index |-> 0, msg |-> m])
    /\ calls_since_sleep' = calls_since_sleep + 1
    /\ pc' = "sleep_title"
    /\ UNCHANGED <<cfgVars, pdf_index, docVars, ci, cr_title, sim, choiceVars, searchVars,
                   finalVars, outVars>>

\* line 327, the condition false
SkipTitleSearch ==
    /\ pc = "fallback"
    /\ ~title_search_due
    /\ pc' = "finalize"
    /\ UNCHANGED <<cfgVars, pdf_index, docVars, scanVars, choiceVars, searchVars, finalVars,
                   outVars, netVars>>

\* line 330: time.sleep(SLEEP_BETWEEN_REQUESTS)
SleepAfterTitle ==
    /\ pc = "sleep_title"
    /\ calls_since_sleep' = 0
    /\ pc' = "title_decide"
    /\ UNCHANGED <<cfgVars, pdf_index, docVars, scanVars, choiceVars, searchVars, finalVars,
                   outVars, calls>>

\* the institution terms of the title-search guard (line 340)
institution_terms == {"university", "college", "department", "institute", "school", "brigham"}
\* the least title length of the title-search guard (line 349)
TitleSearchMinLen == 30

\* a guard that leaves out the length of the title
guard_without_length(score, title) ==
    /\ AtLeastThreshold(score)
    /\ ~\E t \in institution_terms : Contains(lower(title), t)

\* line 349: the guard of an automatic acceptance
title_search_guard(score, title) ==
    /\ AtLeastThreshold(score)
    /\ Len(title) >= TitleSearchMinLen
    /\ ~\E t \in institution_terms : Contains(lower(title), t)

\* an acceptance that does not look at the switch
auto_accept_without_switch(score, title) == title_search_guard(score, title)

\* lines 348-349: the switch and the guard
auto_accept(score, title) == AUTO_ACCEPT_TITLE_SEARCH /\ title_search_guard(score, title)

\* lines 331-356: what the title search returned
TitleDecide ==
    /\ pc = "title_decide"
    /\ IF msg # NoMsg /\ Truthy(msg.DOI)
       THEN LET title == cr_title_of(msg)
                score == SimilarityOf[<<pdf_title_candidate, title>>]
            IN /\ cr_title' = title
               /\ sim' = score
               /\ title_search_attempted' = TRUE
               /\ title_search_msg' = msg
               /\ title_search_sim' = score
               /\ IF auto_accept(score, pdf_title_candidate)
                  THEN /\ chosen' = msg.DOI
                       /\ chosen_msg' = msg
                       /\ chosen_confidence' = "title_search"
                       /\ chosen_sim' = score
                       /\ UNCHANGED chosen_tag
                  ELSE UNCHANGED choiceVars
       ELSE UNCHANGED <<cr_title, sim, searchVars, choiceVars>>
    /\ pc' = "finalize"
    /\ UNCHANGED <<cfgVars, pdf_index, docVars, ci, msg, finalVars, outVars, netVars>>

\* the report row of lines 394-406
ReportRow(d, st, src, th, warn) ==
    [filename |-> filename, doi |-> IF Truthy(d) THEN d ELSE "", status |-> st,
     doi_source |-> IF Truthy(src) THEN src ELSE "",
     confidence |-> chosen_confidence,
     tag |-> IF Truthy(chosen_tag) THEN chosen_tag ELSE "",
     sim |-> IF chosen_sim[1] # 0 THEN format3f(chosen_sim) ELSE Blank,
     cr_title |-> IF Truthy(cr_title) THEN cr_title ELSE "",
     pdf_title_candidate |-> pdf_title_candidate,
     type_hint |-> IF th THEN "thesis" ELSE "",
     warning |-> warn]

\* the manual-review row of lines 384-391
ManualReviewRow ==
    [filename |-> filename, pdf_title_candidate |-> pdf_title_candidate,
     attempted_cr_title |-> title_or_blank(title_search_msg),
     attempted_cr_doi |-> title_search_msg.DOI,
     sim |-> IF title_search_sim # NoSim THEN format3f(title_search_sim) ELSE Blank,
     reason |-> "title_search_no_accept"]

\* manual-review rows appended whatever the status of the PDF is
manual_rows_any_status(st) ==
    IF title_search_attempted /\ title_search_msg # NoMsg
    THEN Append(manual_review_rows, ManualReviewRow) ELSE manual_review_rows

\* lines 375-391: manual_review_rows after the PDF got status st; a row is
\* appended in the no_match branch when a title search returned a record
manual_rows_after(st) ==
    IF st = "no_match" /\ title_search_attempted /\ title_search_msg # NoMsg
    THEN Append(manual_review_rows, ManualReviewRow) ELSE manual_review_rows

\* line 365: main calls is_thesis without the filename
thesis_call == ThesisOf[<<chosen_msg, text_first, None>>]

\* lines 360-406: the entries, the manual-review row and the report row
Finalize ==
    /\ pc = "finalize"
    /\ IF chosen_msg # NoMsg
       THEN LET d == IF Truthy(chosen) THEN chosen ELSE chosen_msg.DOI
                src == IF chosen_confidence \in {"high", "medium"} THEN "pdf_doi_candidate" ELSE "title_search"
                th == thesis_call
                bib == to_bibtex_entry(chosen_msg, filename, th.val)
                ris == to_ris_entry(chosen_msg, filename, th.val)
                st == IF bib.exc \/ ris.exc THEN "error" ELSE "matched"
                warn == IF bib.exc \/ ris.exc THEN "Error constructing entry" ELSE warning
            IN /\ doi' = d
               /\ doi_source' = src
               /\ IF th.exc
                  THEN \* the exception leaves main
                       /\ pc' = "aborted"
                       /\ UNCHANGED <<status, thesis_flag, warning, bib_entries, ris_entries,
                                      report_rows, manual_review_rows>>
                  ELSE /\ thesis_flag' = th.val
                       /\ bib_entries' = IF bib.exc THEN bib_entries ELSE Append(bib_entries, bib.val)
                       /\ ris_entries' = IF bib.exc \/ ris.exc THEN ris_entries ELSE Append(ris_entries, ris.val)
                       /\ status' = st
                       /\ warning' = warn
                       /\ manual_review_rows' = manual_rows_after(st)
                       /\ report_rows' = Append(report_rows, ReportRow(d, st, src, th.val, warn))
                       /\ pc' = "next_pdf"
       ELSE LET review == title_search_attempted /\ title_search_msg # NoMsg
                warn == IF ~review \/ warning # "" THEN warning ELSE "title_search_no_accept"
            IN /\ doi' = ""
               /\ status' = "no_match"
               /\ doi_source' = ""
               /\ thesis_flag' = FALSE
               /\ warning' = warn
               /\ manual_review_rows' = manual_rows_after("no_match")
               /\ report_rows' = Append(report_rows, ReportRow("", "no_match", "", FALSE, warn))
               /\ pc' = "next_pdf"
               /\ UNCHANGED <<bib_entries, ris_entries>>
    /\ UNCHANGED <<cfgVars, pdf_index, docVars, scanVars, choiceVars, searchVars, files_written, netVars>>

\* lines 408-428: the loop is over, the files are written
WriteOutputs ==
    /\ pc = "next_pdf"
    /\ pdf_index = n_files
    /\ files_written' = {"references.bib", "references.ris", "doi_report.csv"}
                        \cup (IF manual_review_rows # <<>> THEN {"manual_review.csv"} ELSE {})
    /\ pc' = "done"
    /\ UNCHANGED <<cfgVars, pdf_index, docVars, scanVars, choiceVars, searchVars, finalVars,
                   bib_entries, ris_entries, report_rows, manual_review_rows, netVars>>

Next ==
    \/ NextPdf
    \/ ExtractFullText
    \/ QueryDoi
    \/ SleepAfterDoi
    \/ Decide
    \/ ScanExhausted
    \/ QueryTitle
    \/ SkipTitleSearch
    \/ SleepAfterTitle
    \/ TitleDecide
    \/ Finalize
    \/ WriteOutputs

Spec == Init /\ [][Next]_vars

(***************************************************************************)
(* find_doi_candidates_in_pdf_text on its own: a text is drawn, as the     *)
(* first pages or as the full text, and the function is applied to it.     *)
(***************************************************************************)
\* what a text around a DOI is made of
DoiTokens == {"doi: ", "10.1000/a", "10.1000/b", ".", ",", ";", ")", "(", " "}

RECURSIVE TokenTexts(_)
TokenTexts(n) ==
    IF n = 0 THEN {""}
    ELSE TokenTexts(n - 1) \cup {t \o k : t \in TokenTexts(n - 1), k \in DoiTokens}

\* the (full_text, first_pages_text) pairs the function is applied to
CandidateInputs ==
    {<<"", t>> : t \in TokenTexts(MaxTokens)} \cup {<<t, "">> : t \in TokenTexts(MaxTokens)}

\* the variables main has not touched before its loop
BeforeLoop ==
    /\ AUTO_ACCEPT_TITLE_SEARCH = FALSE /\ n_files = 0 /\ pdf_index = 0
    /\ filename = "" /\ extracted_full = FALSE
    /\ ci = 1 /\ msg = NoMsg /\ cr_title = "" /\ sim = Zero
    /\ chosen = None /\ chosen_msg = NoMsg /\ chosen_confidence = "" /\ chosen_tag = None
    /\ chosen_sim = Zero
    /\ title_search_attempted = FALSE /\ title_search_msg = NoMsg /\ title_search_sim = NoSim
    /\ doi = None /\ doi_source = None /\ status = "" /\ thesis_flag = FALSE /\ warning = ""
    /\ bib_entries = <<>> /\ ris_entries = <<>> /\ report_rows = <<>> /\ manual_review_rows = <<>>
    /\ files_written = {}
    /\ calls = <<>> /\ calls_since_sleep = 0

CandidatesInit ==
    /\ pc = "candidates_input"
    /\ \E p \in CandidateInputs : text_full = p[1] /\ text_first = p[2]
    /\ candidates = <<>> /\ pdf_title_candidate = ""
    /\ BeforeLoop

\* candidates = find_doi_candidates_in_pdf_text(text_full, first_pages_text=text_first)
FindDoiCandidates ==
    /\ pc = "candidates_input"
    /\ candidates' = find_doi_candidates_in_pdf_text(text_full, text_first)
    /\ pc' = "candidates_found"
    /\ UNCHANGED <<cfgVars, pdf_index, filename, text_first, text_full, pdf_title_candidate,
                   extracted_full, scanVars, choiceVars, searchVars, finalVars, outVars, netVars>>

CandidatesSpec == CandidatesInit /\ [][FindDoiCandidates]_vars

(***************************************************************************)
(* extract_title_candidate_from_text on its own: a text of a few lines,    *)
(* possibly after a run of short lines that fills the scan, is drawn and   *)
(* the function is applied to it.                                          *)
(***************************************************************************)
\* lines of a first page: headers, institutions, titles, a short line, a blank one
TitleLines ==
    {"Abstract of the work in question\n",
     "KEYWORDS: floods, satellites, rain\n",
     "Theses and Dissertations 2020\n",
     "dissertations of the year 2020\n",
     "Brigham Young University\n",
     "Flood forecasting with satellite data\n",
     "  Remote sensing of snow cover depth\n",
     "Short title\n",
     "  \n"}

RECURSIVE LineTexts(_)
LineTexts(n) ==
    IF n = 0 THEN {""}
    ELSE LineTexts(n - 1) \cup {t \o l : t \in LineTexts(n - 1), l \in TitleLines}

RECURSIVE ShortLines(_)
ShortLines(n) == IF n = 0 THEN "" ELSE "p\n" \o ShortLines(n - 1)

\* the texts the function is applied to: the scan of lines[:30] reaches the
\* first drawn line after TitleScanLimit - 1 short lines and not after TitleScanLimit
TitleInputs ==
    {pad \o t : pad \in {"", ShortLines(TitleScanLimit - 1), ShortLines(TitleScanLimit)},
                t \in LineTexts(MaxLines)}

TitleInit ==
    /\ pc = "title_input"
    /\ text_first \in TitleInputs
    /\ text_full = "" /\ candidates = <<>> /\ pdf_title_candidate = ""
    /\ BeforeLoop

\* pdf_title_candidate = extract_title_candidate_from_text(text_first)
ExtractTitleCandidate ==
    /\ pc = "title_input"
    /\ pdf_title_candidate' = extract_title_candidate_from_text(text_first)
    /\ pc' = "title_found"
    /\ UNCHANGED <<cfgVars, pdf_index, filename, text_first, text_full, candidates,
                   extracted_full, scanVars, choiceVars, searchVars, finalVars, outVars, netVars>>

TitleSpec == TitleInit /\ [][ExtractTitleCandidate]_vars

(***************************************************************************)
(* Properties.  They are stated over the history of resolver calls and the *)
(* rows main has appended.                                                 *)
(***************************************************************************)
\* the PDF in hand has received its report row
Reported == pc \in {"next_pdf", "done"} /\ pdf_index > 0
\* the report row of the PDF in hand, once Reported
outcome == report_rows[Len(report_rows)]
\* the resolver calls made for the PDF in hand, in order
doc_calls == SelectSeq(calls, LAMBDA c : c.pdf = pdf_index)
\* main has acted on the answer of the i-th of these calls
Decided(i) == i < Len(doc_calls) \/ pc \notin {"sleep_doi", "decide", "sleep_title", "title_decide"}
\* the candidate a resolve-by-identifier call was made for
cand_of(c) == candidates[c.index][1]
tag_of(c) == candidates[c.index][2]
\* similarity of the title candidate and the title of the record of a call
score_of(c) == SimilarityOf[<<pdf_title_candidate, cr_title_of(c.msg)>>]
\* the first-pages provenance tags, labelled and unlabelled
FirstPagesTags == {"firstpages_label", "firstpages_any"}
\* a similarity of at least 0.55
ReachesThreshold(score) == score[1] * 100 >= 55 * score[2]
\* the outcome of a PDF whose record was accepted: matched, or error with
\* the warning of a failed entry construction
MatchedOrEntryError(row) ==
    \/ row.status = "matched"
    \/ row.status = "error" /\ row.warning = "Error constructing entry"

HighTrustResolved(c) == c.kind = "doi" /\ c.msg # NoMsg /\ tag_of(c) \in FirstPagesTags
AcceptedHigh(c) ==
    /\ chosen = cand_of(c) /\ chosen_msg = c.msg
    /\ chosen_confidence = "high" /\ chosen_tag = tag_of(c)

\* C1 (as amended): a candidate with a first-pages tag for which
\* resolve-by-identifier returned a record is accepted with confidence
\* "high" whatever the similarity is; the report row of the PDF, once
\* written, has confidence high and status matched, or status error when
\* the construction of an entry failed.
C1_HighTrustAccepted ==
    \A i \in 1..Len(doc_calls) :
        LET c == doc_calls[i]
        IN HighTrustResolved(c) /\ Decided(i) =>
            /\ AcceptedHigh(c)
            /\ Reported => /\ outcome.filename = filename
                           /\ outcome.confidence = "high"
                           /\ MatchedOrEntryError(outcome)

\* C1 (as stated): the same, with the status of the report row always
\* matched.
C1_HighTrustAlwaysMatched ==
    \A i \in 1..Len(doc_calls) :
        LET c == doc_calls[i]
        IN HighTrustResolved(c) /\ Decided(i) =>
            /\ AcceptedHigh(c)
            /\ Reported => /\ outcome.confidence = "high"
                           /\ outcome.status = "matched"

\* C1 witness: a PDF is reported matched with confidence high although the
\* similarity of the accepted record is 0.
C1_Witness ==
    /\ Reported
    /\ \E i \in 1..Len(doc_calls) : HighTrustResolved(doc_calls[i])
    /\ chosen_sim[1] = 0
    /\ outcome.confidence = "high" /\ outcome.status = "matched"

LowTrustResolved(c) == c.kind = "doi" /\ c.msg # NoMsg /\ tag_of(c) \notin FirstPagesTags
AcceptedMedium(c) ==
    /\ chosen = cand_of(c) /\ chosen_msg = c.msg
    /\ chosen_confidence = "medium" /\ chosen_tag = tag_of(c)

\* C2: a candidate whose tag is not a first-pages tag and for which a record
\* was returned is accepted, with confidence "medium", exactly if the
\* similarity of the title candidate and the record's title is >= 0.55;
\* below it the candidate is dropped and the scan goes on to the next
\* candidate.
C2_LowTrustIffThreshold ==
    \A i \in 1..Len(doc_calls) :
        LET c == doc_calls[i]
        IN LowTrustResolved(c) /\ Decided(i) =>
            IF ReachesThreshold(score_of(c))
            THEN AcceptedMedium(c) /\ ci = c.index
            ELSE /\ ~AcceptedMedium(c)
                 /\ ci > c.index
                 /\ (i < Len(doc_calls) /\ c.index < Len(candidates)) =>
                        (doc_calls[i + 1].kind = "doi" /\ doc_calls[i + 1].index = c.index + 1)

\* C2 witness: of two low-trust candidates of a PDF the first was dropped
\* for a similarity below the threshold (and above 0) and the second was
\* accepted with confidence medium.
C2_Witness ==
    /\ Len(doc_calls) = 2 /\ Decided(2)
    /\ LowTrustResolved(doc_calls[1])
    /\ ~ReachesThreshold(score_of(doc_calls[1])) /\ score_of(doc_calls[1])[1] > 0
    /\ LowTrustResolved(doc_calls[2]) /\ AcceptedMedium(doc_calls[2])

\* a resolved candidate that satisfies the acceptance rule
Satisfies(c) ==
    /\ c.kind = "doi" /\ c.msg # NoMsg
    /\ (tag_of(c) \in FirstPagesTags \/ ReachesThreshold(score_of(c)))

\* C3: the candidates are resolved in candidate order; the first that
\* resolves and satisfies the acceptance rule is the accepted one and is the
\* last resolver call of the PDF: no later candidate is resolved and no
\* title query follows; the accepted record is the answer of the last call,
\* so a PDF has at most one.
C3_FirstAcceptanceStops ==
    /\ \A i \in 1..Len(doc_calls) :
        LET c == doc_calls[i]
        IN /\ c.kind = "doi" => c.index = i
           /\ c.kind = "title" => i = Len(doc_calls)
           /\ Satisfies(c) =>
                /\ i = Len(doc_calls)
                /\ Decided(i) => (chosen = cand_of(c) /\ chosen_msg = c.msg)
    /\ chosen_msg # NoMsg =>
        (Len(doc_calls) > 0 /\ chosen_msg = doc_calls[Len(doc_calls)].msg)

\* C3 witness: a PDF with two candidates is reported after one resolver
\* call, the first candidate having been accepted.
C3_Witness ==
    /\ Reported
    /\ Len(candidates) = 2
    /\ Len(doc_calls) = 1 /\ Satisfies(doc_calls[1])
    /\ chosen = candidates[1][1]

\* a title query that returned a record carrying an identifier
TitleRecord(c) == c.kind = "title" /\ c.msg # NoMsg /\ Truthy(c.msg.DOI)
\* the manual-review rows of a file
ManualRowsOf(name) == {j \in 1..Len(manual_review_rows) : manual_review_rows[j].filename = name}

\* C4: with AUTO_ACCEPT_TITLE_SEARCH off no PDF is accepted through the
\* title search (the confidence title_search is never produced), and a PDF
\* whose title query returned a record with an identifier is reported
\* no_match with exactly one manual-review row, which carries the title and
\* the identifier of that record and the similarity.
C4_SwitchOffManualReview ==
    ~AUTO_ACCEPT_TITLE_SEARCH =>
        /\ chosen_confidence # "title_search"
        /\ \A k \in 1..Len(report_rows) : report_rows[k].confidence # "title_search"
        /\ \A i \in 1..Len(doc_calls) :
            LET c == doc_calls[i]
            IN TitleRecord(c) /\ Reported =>
                /\ outcome.filename = filename /\ outcome.status = "no_match"
                /\ Cardinality(ManualRowsOf(filename)) = 1
                /\ \A j \in ManualRowsOf(filename) :
                    /\ manual_review_rows[j].attempted_cr_title = cr_title_of(c.msg)
                    /\ manual_review_rows[j].attempted_cr_doi = c.msg.DOI
                    /\ manual_review_rows[j].sim = format3f(score_of(c))

\* C4 witness: with the switch off, the only candidate of a PDF, a low-trust
\* one, was dropped for its similarity; the title query returned a record
\* and the PDF is reported no_match with one manual-review row.
C4_Witness ==
    /\ ~AUTO_ACCEPT_TITLE_SEARCH /\ Reported
    /\ Len(doc_calls) = 2
    /\ LowTrustResolved(doc_calls[1]) /\ ~ReachesThreshold(score_of(doc_calls[1]))
    /\ TitleRecord(doc_calls[2])
    /\ outcome.status = "no_match"
    /\ Cardinality(ManualRowsOf(filename)) = 1

\* C5: every manual-review row belongs to a PDF that is reported no_match
\* (and to none reported matched or error) and for which a title query was
\* made and returned a record, whatever AUTO_ACCEPT_TITLE_SEARCH is.
C5_ManualReviewOnlyNoMatch ==
    \A j \in 1..Len(manual_review_rows) :
        LET m == manual_review_rows[j]
        IN /\ \E k \in 1..Len(report_rows) : report_rows[k].filename = m.filename
           /\ \A k \in 1..Len(report_rows) :
                report_rows[k].filename = m.filename => report_rows[k].status = "no_match"
           /\ \E i \in 1..Len(calls) :
                /\ calls[i].kind = "title" /\ calls[i].msg # NoMsg
                /\ calls[i].pdf <= Len(report_rows)
                /\ report_rows[calls[i].pdf].filename = m.filename
                /\ calls[i].msg.DOI = m.attempted_cr_doi

\* C5 witness: with the switch on, the first PDF of a folder is reported
\* matched and the second no_match with a manual-review row.
C5_Witness ==
    /\ AUTO_ACCEPT_TITLE_SEARCH
    /\ Len(report_rows) = 2
    /\ report_rows[1].status = "matched" /\ report_rows[2].status = "no_match"
    /\ ManualRowsOf(report_rows[1].filename) = {}
    /\ ManualRowsOf(report_rows[2].filename) # {}

\* C6 (as stated): the loop has no fatal error: main never stops before the
\* last PDF, every PDF taken has its report row as soon as its turn is over,
\* and at the end the report has one row per PDF, in processing order.
C6_NoFatalError ==
    /\ pc # "aborted"
    /\ Len(report_rows) = (IF pc \in {"next_pdf", "done"} THEN pdf_index ELSE pdf_index - 1)
    /\ Reported => outcome.filename = filename
    /\ pc = "done" => Len(report_rows) = n_files

\* C6 witness of the failure: main stopped in is_thesis, the PDF in hand has
\* no report row and no file was written.
C6_Aborted ==
    /\ pc = "aborted"
    /\ Len(report_rows) = pdf_index - 1
    /\ files_written = {}

EntriesOf(entries, name) == {k \in 1..Len(entries) : entries[k].note = "PDF file: " \o name}

\* C7 (as stated): the BibTeX entries and the RIS records correspond one to
\* one with the PDFs reported matched: a matched PDF has one entry in each
\* collection, a PDF reported error or no_match has none in either.
C7_EntriesOneToOne ==
    \A k \in 1..Len(report_rows) :
        LET row == report_rows[k]
            n == IF row.status = "matched" THEN 1 ELSE 0
        IN /\ Cardinality(EntriesOf(bib_entries, row.filename)) = n
           /\ Cardinality(EntriesOf(ris_entries, row.filename)) = n

\* C7 witness of the failure: a PDF reported error has a BibTeX entry and no
\* RIS record.
C7_OrphanBibEntry ==
    \E k \in 1..Len(report_rows) :
        /\ report_rows[k].status = "error"
        /\ EntriesOf(bib_entries, report_rows[k].filename) # {}
        /\ EntriesOf(ris_entries, report_rows[k].filename) = {}

\* a file name with one of the thesis words of is_thesis
ThesisFileName(name) == \E w \in {"thesis", "dissert", "phd"} : Contains(lower(name), w)

\* C8 (as stated): a PDF whose file name contains "thesis", "dissert" or
\* "phd" in any case is reported with the thesis flag set, with or without
\* an accepted record, and the entries exported for it have the thesis
\* type.
C8_FileNameSetsThesisFlag ==
    (Reported /\ ThesisFileName(filename)) =>
        /\ thesis_flag
        /\ outcome.type_hint = "thesis"
        /\ \A k \in EntriesOf(bib_entries, filename) : bib_entries[k].type = "phdthesis"
        /\ \A k \in EntriesOf(ris_entries, filename) : ris_entries[k].type = "THES"

\* C8 witness of the failure: a PDF named Dissertation... with no DOI
\* candidate is reported without the thesis flag.
C8_DissertationNotFlagged ==
    /\ Reported
    /\ Contains(filename, "Dissertation")
    /\ candidates = <<>>
    /\ ~thesis_flag /\ outcome.type_hint = ""

\* the three conditions of the title-search guard
PassesGuard(c) ==
    /\ ReachesThreshold(score_of(c))
    /\ Len(pdf_title_candidate) >= 30
    /\ ~\E t \in institution_terms : Contains(lower(pdf_title_candidate), t)
AcceptedByTitle(c) ==
    /\ chosen = c.msg.DOI /\ chosen_msg = c.msg
    /\ chosen_confidence = "title_search"

C10_DelayBetweenCalls == calls_since_sleep <= 1

\* C10 witness: a resolver call for the second PDF of a folder has just been
\* made, the call before it being one for the first PDF.
C10_Witness ==
    /\ calls_since_sleep = 1
    /\ Len(calls) >= 2
    /\ calls[Len(calls)].pdf = 2 /\ calls[Len(calls) - 1].pdf = 1

\* C11: for every PDF the full text is extracted, and the candidates are
\* extracted again from it, exactly if the first pages alone yield no
\* candidate; when the first pages yield one, the full text is never
\* extracted and the candidates stay those of the first pages, whether or
\* not any of them resolves.
C11_FullTextOnlyWithoutCandidates ==
    (pdf_index > 0 /\ pc # "full_text") =>
        /\ extracted_full <=> (FirstPagesCandidatesOf[text_first] = <<>>)
        /\ extracted_full =>
            candidates = FullCandidatesOf[<<text_full, text_first>>]
        /\ ~extracted_full =>
            (text_full = "" /\ candidates = FirstPagesCandidatesOf[text_first])

\* C11 witness: the first pages of a PDF gave candidates, every one of them
\* was looked up and none resolved, and the PDF is reported no_match without
\* its full text having been extracted.
C11_Witness ==
    /\ Reported
    /\ candidates # <<>>
    /\ Len(doc_calls) >= Len(candidates)
    /\ \A i \in 1..Len(candidates) : doc_calls[i].kind = "doi" /\ doc_calls[i].msg = NoMsg
    /\ outcome.status = "no_match"
    /\ ~extracted_full /\ text_full = ""

\* the last character of a str, "" for the empty str
LastChar(s) == IF s = "" THEN "" ELSE At(s, Len(s))

\* C12 (as stated): no candidate returned by
\* find_doi_candidates_in_pdf_text, labelled or unlabelled, ends with a
\* period, a comma, a semicolon or a closing parenthesis.
C12_NoTrailingPunctuation ==
    pc = "candidates_found" =>
        \A k \in 1..Len(candidates) : LastChar(candidates[k][1]) \notin {".", ",", ";", ")"}

\* C12 witness of the failure: a labelled candidate that ends with a closing
\* parenthesis, the text having read "doi: 10.1000/a)".
C12_ParenthesisKept ==
    /\ pc = "candidates_found"
    /\ text_first = "doi: 10.1000/a)"
    /\ \E k \in 1..Len(candidates) :
        candidates[k] = <<"10.1000/a)", "firstpages_label">>

\* the header words and the skip rules as the claim lists them
HeaderWords ==
    {"abstract", "keywords", "introduction", "acknowledg", "copyright", "theses", "dissertations"}

StartsWithHeaderWord(ln) == \E w \in HeaderWords : startswith(lower(ln), w)

HasInstitutionTerm(ln) == \E term \in skip_institution_terms : Contains(lower(ln), term)

Qualifies(ln) == Len(ln) > TitleMinLen /\ ~StartsWithHeaderWord(ln) /\ ~HasInstitutionTerm(ln)

\* the first 30 non-empty lines of the text the extractor was given
ScannedLines ==
    LET lines == stripped_lines(splitlines(text_first))
    IN SubSeq(lines, 1, IF Len(lines) < TitleScanLimit THEN Len(lines) ELSE TitleScanLimit)

\* C13 (as stated): when some line among the first 30 non-empty lines is
\* longer than 20 characters and matches no skip rule (it starts,
\* case-insensitively, with none of "abstract", "keywords", "introduction",
\* "acknowledg", "copyright", "theses", "dissertations" and contains no
\* institution term), extract_title_candidate_from_text returns the first
\* such line, and so never a line that a skip rule excludes.
C13_FirstQualifyingLine ==
    (pc = "title_found" /\ \E k \in 1..Len(ScannedLines) : Qualifies(ScannedLines[k])) =>
        \E k \in 1..Len(ScannedLines) :
            /\ Qualifies(ScannedLines[k])
            /\ \A j \in 1..(k - 1) : ~Qualifies(ScannedLines[j])
            /\ pdf_title_candidate = ScannedLines[k]

\* C13 witness of the failure: a line starting with "Theses" is returned
\* although a qualifying line follows it.
C13_ThesesLineReturned ==
    /\ pc = "title_found"
    /\ text_first = "Theses and Dissertations 2020\nFlood forecasting with satellite data\n"
    /\ pdf_title_candidate = "Theses and Dissertations 2020"

====
